---- MODULE Spec2Model ----
(***************************************************************************)
(* The "gn gen" driver of src/gn/command_gen.cc: RunGen, the resolved-     *)
(* item callback that schedules the per-target ninja writer on the worker  *)
(* pool, the aggregator TargetWriteInfo, the generated-input validator     *)
(* and the project writers.                                                *)
(***************************************************************************)
EXTENDS Integers, Sequences, FiniteSets, TLC

(***************************************************************************)
(* Bounds of the model.                                                    *)
(***************************************************************************)
\* Number of build items (targets and non-targets) declared by the input.
NumItems == 4
\* Number of generated-looking source files the input may name.
NumFiles == 3
\* Largest number of bad generated inputs of a repository.
MaxBadInputs == 2
\* Largest number of positional arguments tried.
MaxArgs == 2

None == "none"
\* A null Target pointer.
nullptr == 0

(***************************************************************************)
(* The input repository: items, labels, toolchains, outputs.               *)
(***************************************************************************)
Items == 1..NumItems
Files == 1..NumFiles

DefaultToolchain == "//tc:default"
OtherToolchain == "//tc:other"

\* Item::AsTarget(): every fourth item is a config, the others are targets.
AsTarget(i) == IF i % 4 # 0 THEN i ELSE nullptr

Targets == {i \in Items : AsTarget(i) # nullptr}

\* target->settings()->toolchain_label()
ToolchainLabel(i) == IF i % 3 = 0 THEN OtherToolchain ELSE DefaultToolchain

\* target->label(): (dir, name, toolchain), unique per item.
Label(i) == [dir |-> i % 2, name |-> i \div 3, toolchain |-> ToolchainLabel(i)]

ToolchainRank(tc) == IF tc = DefaultToolchain THEN 0 ELSE 1

\* Label::operator<, lexicographic over (dir, name, toolchain).
LabelLess(a, b) ==
  \/ a.dir < b.dir
  \/ a.dir = b.dir /\ a.name < b.name
  \/ a.dir = b.dir /\ a.name = b.name
       /\ ToolchainRank(a.toolchain) < ToolchainRank(b.toolchain)

\* Label::GetUserVisibleName(include_toolchain)
GetUserVisibleName(l, include_toolchain) ==
  [dir |-> l.dir, name |-> l.name,
   suffix |-> IF include_toolchain THEN l.toolchain ELSE None]

\* The build directory and SourceFile::value() as path components.
BuildDir == <<"out">>
SourceFileValue(f) == <<"out", "gen", f>>

IsPrefix(p, s) == Len(p) <= Len(s) /\ SubSeq(s, 1, Len(p)) = p

\* OutputFile(build_settings, source_file): the path rebased to the build dir.
OutputFile(build_dir, value) ==
  IF IsPrefix(build_dir, value)
    THEN SubSeq(value, Len(build_dir) + 1, Len(value))
    ELSE [k \in 1..Len(build_dir) |-> ".."] \o value

\* target->computed_outputs(): target 2 (default toolchain) generates file 1,
\* target 3 (other toolchain) generates file 2, nothing generates the rest.
ComputedOutputs(i) ==
  IF AsTarget(i) # nullptr /\ i \in 2..3 THEN {<<"gen", i - 1>>} ELSE {}

\* target->is_jumbo_configured(), is_jumbo_allowed(), IsBinary(): target 1
\* is a binary with jumbo allowed, target 2 is neither binary nor configured,
\* target 3 is a binary without jumbo configuration.
IsJumboConfigured(i) == i % 4 = 1
IsJumboAllowed(i) == i % 8 = 1
IsBinary(i) == i % 3 # 2

\* NinjaTargetWriter::RunAndWriteFile(target): the rule of a target, a pure
\* function of the target.
RuleOf(t) == <<"rule", Label(t)>>

(***************************************************************************)
(* The command line (base::CommandLine::ForCurrentProcess()).              *)
(***************************************************************************)
NoSwitch == "<absent>"

kSwitchIdeValueEclipse == "eclipse"
kSwitchIdeValueQtCreator == "qtcreator"
kSwitchIdeValueVs == "vs"
kSwitchIdeValueVs2013 == "vs2013"
kSwitchIdeValueVs2015 == "vs2015"
kSwitchIdeValueVs2017 == "vs2017"
kSwitchIdeValueVs2019 == "vs2019"
kSwitchIdeValueXcode == "xcode"
kSwitchIdeValueJson == "json"
kSwitchXcodeBuildsystemValueLegacy == "legacy"
kSwitchXcodeBuildsystemValueNew == "new"

IdeValues ==
  {kSwitchIdeValueEclipse, kSwitchIdeValueQtCreator, kSwitchIdeValueVs,
   kSwitchIdeValueVs2013, kSwitchIdeValueVs2015, kSwitchIdeValueVs2017,
   kSwitchIdeValueVs2019, kSwitchIdeValueXcode, kSwitchIdeValueJson}

\* A command line: the number of positional arguments and the switches read
\* by RunGen and the writers.  A switch that is absent has value NoSwitch.
CommandLine(nargs, ide, xbs, cc, rust, quiet, jumbo, check, hasargs) ==
  [args |-> nargs, ide |-> ide, xcode_build_system |-> xbs,
   export_compile_commands |-> cc, export_rust_project |-> rust,
   quiet |-> quiet, jumbo_stats |-> jumbo, check |-> check, args_switch |-> hasargs]

\* The command lines tried: every argument count with no switch, and with
\* one build directory each IDE value, an unknown one, the Xcode build
\* systems, and the boolean switches alone and together.
CommandLines ==
  {CommandLine(n, NoSwitch, "", FALSE, FALSE, FALSE, FALSE, NoSwitch, FALSE) :
     n \in 0..MaxArgs}
  \cup {CommandLine(1, i, "", FALSE, FALSE, q, FALSE, NoSwitch, FALSE) :
     i \in IdeValues \cup {"bogus"}, q \in BOOLEAN}
  \cup {CommandLine(1, kSwitchIdeValueXcode, x, FALSE, FALSE, FALSE, FALSE,
                    NoSwitch, TRUE) :
     x \in {kSwitchXcodeBuildsystemValueNew,
            kSwitchXcodeBuildsystemValueLegacy, "bogus"}}
  \cup {CommandLine(1, i, "", cc, rust, q, j, c, FALSE) :
     i \in {NoSwitch, kSwitchIdeValueJson, "bogus"}, cc \in BOOLEAN,
     rust \in BOOLEAN, q \in BOOLEAN, j \in BOOLEAN, c \in {NoSwitch, "system"}}

\* Worker counts of the pool.
WorkerCounts == {1, 2, 8}

\* The generated inputs a repository lists without a dependency path to a
\* producer: a set of (file, target) pairs; a target never lists its own output.
BadPairs ==
  {p \in Files \X Targets :
     OutputFile(BuildDir, SourceFileValue(p[1])) \notin ComputedOutputs(p[2])}

VARIABLES
  command_line,      \* the process's command line
  num_workers,       \* N, the size of the worker pool
  repo,              \* the (file, target) pairs the input lists as bad inputs
  pc,                \* position of the main thread in RunGen
  exit_code,         \* RunGen's return value, -1 while it runs
  setup,             \* the Setup object and its flags
  callback,          \* the builder's resolved-and-generated callback is set
  resolved,          \* items whose record is resolved
  unknown_inputs,    \* the scheduler's unknown-generated-inputs multimap
  inserted,          \* history: the entries of the multimap in insertion order
  is_failed,         \* the scheduler recorded a failure
  work_queue,        \* tasks submitted to the pool and not yet started
  task,              \* per target: position of its BackgroundDoWrite task
  write_info,        \* TargetWriteInfo: lock holder and rules
  jumbo,             \* the three jumbo counters of RunGen
  written,           \* the rules the main output was written from (none or
                     \* one), and whether the runtime-deps step has written
  steps,             \* the steps RunGen has executed, in order
  stdout             \* what was printed, in order

vars ==
  <<command_line, num_workers, repo, pc, exit_code, setup, callback, resolved,
    unknown_inputs, inserted, is_failed, work_queue, task, write_info, jumbo, written,
    steps, stdout>>

(***************************************************************************)
(* The scheduler and builder as RunGen sees them.                          *)
(***************************************************************************)
\* std::multimap::upper_bound(key): the first position whose key is greater.
UpperBound(mm, f) ==
  IF \E k \in 1..Len(mm) : mm[k].file > f
    THEN CHOOSE k \in 1..Len(mm) :
           mm[k].file > f /\ \A j \in 1..(k - 1) : ~(mm[j].file > f)
    ELSE Len(mm) + 1

\* std::multimap::insert: after the last entry whose key is not greater.
MultimapInsert(mm, f, t) ==
  LET at == UpperBound(mm, f)
  IN SubSeq(mm, 1, at - 1) \o <<[file |-> f, target |-> t]>>
       \o SubSeq(mm, at, Len(mm))

\* The files of a set in ascending order: the order in which a target reports
\* its bad inputs.
RECURSIVE InFileOrder(_)
InFileOrder(fs) ==
  IF fs = {} THEN <<>>
  ELSE LET f == CHOOSE x \in fs : \A y \in fs : x <= y
       IN <<f>> \o InFileOrder(fs \ {f})

\* The bad inputs of target t in a repository.
BadInputsOf(r, t) == InFileOrder({f \in Files : <<f, t>> \in r})

\* Scheduler::AddUnknownGeneratedInput(t, f) for every file of a sequence.
RECURSIVE AddUnknownGeneratedInputs(_, _, _)
AddUnknownGeneratedInputs(mm, fs, t) ==
  IF fs = <<>> THEN mm
  ELSE AddUnknownGeneratedInputs(MultimapInsert(mm, Head(fs), t), Tail(fs), t)

\* The sequence of the elements of a set of items in ascending label order.
RECURSIVE InLabelOrder(_)
InLabelOrder(S) ==
  IF S = {} THEN <<>>
  ELSE LET m == CHOOSE x \in S :
                  \A y \in S \ {x} : LabelLess(Label(x), Label(y))
       IN <<m>> \o InLabelOrder(S \ {m})

\* Builder::GetAllResolvedTargets(): the resolved targets, in record order.
GetAllResolvedTargets(res) == InLabelOrder({i \in res : AsTarget(i) # nullptr})

(***************************************************************************)
(* The generated-input validator.                                          *)
(***************************************************************************)
\* A scan that looks at the first resolved target only.
FindTargetThatGeneratesFile_FirstOnly(res, file) ==
  LET targets == GetAllResolvedTargets(res)
      output_file == OutputFile(BuildDir, SourceFileValue(file))
  IN IF targets = <<>> THEN nullptr
     ELSE IF output_file \in ComputedOutputs(targets[1]) THEN targets[1]
     ELSE nullptr

\* FindTargetThatGeneratesFile: the first resolved target with the file's
\* OutputFile among its computed outputs, nullptr if there is none.
FindTargetThatGeneratesFile(res, file) ==
  LET targets == GetAllResolvedTargets(res)
      output_file == OutputFile(BuildDir, SourceFileValue(file))
      hits == {k \in 1..Len(targets) : output_file \in ComputedOutputs(targets[k])}
  IN IF targets = <<>> THEN nullptr
     ELSE IF hits = {} THEN nullptr
     ELSE targets[CHOOSE k \in hits : \A j \in hits : k <= j]

\* A flag that looks at the consumers only.
ShowToolchains_ConsumersOnly(targets, generator) ==
  \E k \in 1..Len(targets) : ToolchainLabel(targets[k]) # DefaultToolchain

\* The show_toolchains flag of PrintInvalidGeneratedInput.
ShowToolchains(targets, generator) ==
  LET default_toolchain == DefaultToolchain
  IN \/ \E k \in 1..Len(targets) : ToolchainLabel(targets[k]) # default_toolchain
     \/ generator # nullptr /\ ToolchainLabel(generator) # default_toolchain

\* PrintInvalidGeneratedInput: the error printed for one file.
PrintInvalidGeneratedInput(res, file, targets) ==
  LET generator == FindTargetThatGeneratesFile(res, file)
      show_toolchains == ShowToolchains(targets, generator)
  IN [kind |-> "Err",
      title |-> IF Len(targets) > 1 THEN "Input to targets not generated by a dependency."
                ELSE "Input to target not generated by a dependency.",
      file |-> SourceFileValue(file),
      consumers |-> [k \in 1..Len(targets) |->
                       GetUserVisibleName(Label(targets[k]), show_toolchains)],
      generator |-> IF generator # nullptr
                      THEN <<GetUserVisibleName(Label(generator), show_toolchains)>>
                      ELSE <<>>,
      detail |-> IF generator # nullptr
                   THEN "The target that generates the file is:"
                   ELSE "but no targets in the build generate that file."]

\* An inner loop that collects the targets last to first.
GroupTargets_Reversed(mm, cur, end_of_range) ==
  [k \in 1..(end_of_range - cur) |-> mm[end_of_range - k].target]

\* The inner loop of CheckForInvalidGeneratedInputs: the targets of the
\* entries from cur up to end_of_range, in map order.
GroupTargets(mm, cur, end_of_range) ==
  [k \in 1..(end_of_range - cur) |-> mm[cur + k - 1].target]

\* An outer loop that stops after the first file.
PrintGroups_FirstOnly(res, mm, cur) ==
  IF cur > Len(mm) THEN <<>>
  ELSE LET end_of_range == UpperBound(mm, mm[cur].file)
       IN <<PrintInvalidGeneratedInput(res, mm[cur].file,
                                       GroupTargets(mm, cur, end_of_range))>>

\* The outer loop of CheckForInvalidGeneratedInputs from position cur on: one
\* error per iteration.
RECURSIVE PrintGroups(_, _, _)
PrintGroups(res, mm, cur) ==
  IF cur > Len(mm) THEN <<>>
  ELSE LET end_of_range == UpperBound(mm, mm[cur].file)
           bad_input == mm[cur].file
           targets == GroupTargets(mm, cur, end_of_range)
       IN <<PrintInvalidGeneratedInput(res, bad_input, targets)>>
            \o PrintGroups(res, mm, end_of_range)

\* Each error is followed by OutputString("\n").
WithNewlines(errs) ==
  [k \in 1..(2 * Len(errs)) |->
     IF k % 2 = 1 THEN errs[(k + 1) \div 2] ELSE [kind |-> "newline"]]

\* A validator that prints the errors and succeeds all the same.
CheckForInvalidGeneratedInputs_NotFatal(res, mm) ==
  IF mm = <<>> THEN [ok |-> TRUE, out |-> <<>>]
  ELSE [ok |-> TRUE,
        out |-> WithNewlines(PrintGroups(res, mm, 1)) \o <<[kind |-> "help"]>>]

\* CheckForInvalidGeneratedInputs: its return value and what it prints.
CheckForInvalidGeneratedInputs(res, mm) ==
  IF mm = <<>> THEN [ok |-> TRUE, out |-> <<>>]
  ELSE LET errs == PrintGroups(res, mm, 1)
           errors_found == Len(errs)
       IN [ok |-> FALSE,
           out |-> WithNewlines(errs) \o <<[kind |-> "help"]>>
                     \o (IF errors_found > 1
                           THEN <<[kind |-> "count", errors |-> errors_found]>>
                           ELSE <<>>)]

(***************************************************************************)
(* The aggregator and the worker task.                                     *)
(***************************************************************************)
\* NinjaWriter::PerToolchainRules, empty.
EmptyRules == [tc \in {} |-> <<>>]

\* An append that files every target under the default toolchain.
EmplaceBack_DefaultKey(rules, target, rule) ==
  LET key == DefaultToolchain
  IN IF key \in DOMAIN rules
       THEN [rules EXCEPT ![key] = Append(@, <<target, rule>>)]
       ELSE [tc \in DOMAIN rules \cup {key} |->
               IF tc = key THEN <<<<target, rule>>>> ELSE rules[tc]]

\* write_info->rules[target->toolchain()].emplace_back(target, rule)
EmplaceBack(rules, target, rule) ==
  LET key == ToolchainLabel(target)
  IN IF key \in DOMAIN rules
       THEN [rules EXCEPT ![key] = Append(@, <<target, rule>>)]
       ELSE [tc \in DOMAIN rules \cup {key} |->
               IF tc = key THEN <<<<target, rule>>>> ELSE rules[tc]]

\* A callback that schedules a write task for every item.
ItemResolvedAndGeneratedCallback_AnyItem(queue, item) == Append(queue, item)

\* ItemResolvedAndGeneratedCallback: the pool's queue after the callback.
ItemResolvedAndGeneratedCallback(queue, item) ==
  LET target == AsTarget(item)
  IN IF target # nullptr THEN Append(queue, target) ELSE queue

\* Tasks that occupy a worker thread.
Running == {t \in Targets : task[t] \in {"writing", "locked"}}

\* The comparator of the finalization sort.
RuleLess(a, b) == LabelLess(Label(a[1]), Label(b[1]))

\* The sequences over the elements of s, each position used once.
Reorderings(s) ==
  {[k \in 1..Len(s) |-> s[f[k]]] :
     f \in {g \in [1..Len(s) -> 1..Len(s)] :
              \A a, b \in 1..Len(s) : a # b => g[a] # g[b]}}

\* A sort that leaves the sequence as the workers appended it.
StdSort_Unsorted(s) == {s}

\* A sort that orders the targets and leaves the rules where they were.
StdSort_KeysOnly(s) ==
  {[k \in 1..Len(s) |-> <<q[k][1], s[k][2]>>] :
     q \in {r \in Reorderings(s) :
              \A a, b \in 1..Len(r) : a < b => ~RuleLess(r[b], r[a])}}

\* std::sort(begin, end, comp): any reordering with no inversion under comp.
StdSort(s) ==
  {q \in Reorderings(s) :
     \A a, b \in 1..Len(q) : a < b => ~RuleLess(q[b], q[a])}

\* The outcomes of sorting the rules of every toolchain.
SortedRules(rules) ==
  {r \in [DOMAIN rules -> UNION {StdSort(rules[tc]) : tc \in DOMAIN rules}] :
     \A tc \in DOMAIN rules : r[tc] \in StdSort(rules[tc])}

\* All (target, rule) pairs of the aggregator.
AllPairs(rules) ==
  UNION {{rules[tc][k] : k \in 1..Len(rules[tc])} : tc \in DOMAIN rules}

\* A jumbo loop that tests IsBinary for every target, configured or not.
CountJumbo_NoElse(acc, target) ==
  LET counted ==
        IF IsJumboConfigured(target)
          THEN IF IsJumboAllowed(target)
                 THEN [acc EXCEPT !.allowed = @ + 1]
                 ELSE [acc EXCEPT !.disallowed = @ + 1]
          ELSE acc
  IN IF IsBinary(target)
       THEN [counted EXCEPT !.not_configured = @ \cup {target}]
       ELSE counted

\* One iteration of RunGen's jumbo loop: the counters after a target.
CountJumbo(acc, target) ==
  IF IsJumboConfigured(target)
    THEN IF IsJumboAllowed(target)
           THEN [acc EXCEPT !.allowed = @ + 1]
           ELSE [acc EXCEPT !.disallowed = @ + 1]
    ELSE IF IsBinary(target)
           THEN [acc EXCEPT !.not_configured = @ \cup {target}]
           ELSE acc

\* The jumbo counters of RunGen after the loop over every toolchain's rules;
\* they stay at their initial values without --jumbo-stats.
JumboStats(rules, enabled) ==
  LET zero == [allowed |-> 0, disallowed |-> 0, not_configured |-> {}]
      RECURSIVE OverRules(_, _)
      OverRules(acc, q) ==
        IF q = <<>> THEN acc
        ELSE OverRules(CountJumbo(acc, Head(q)[1]), Tail(q))
      RECURSIVE OverToolchains(_, _)
      OverToolchains(acc, S) ==
        IF S = {} THEN acc
        ELSE LET tc == CHOOSE x \in S : TRUE
             IN OverToolchains(OverRules(acc, rules[tc]), S \ {tc})
  IN IF enabled THEN OverToolchains(zero, DOMAIN rules) ELSE zero

(***************************************************************************)
(* The project writers.                                                    *)
(***************************************************************************)
\* The "Generating ... took" line, printed when the writer succeeded and
\* --quiet is not set.
TookLine(what, res, quiet) ==
  IF res /\ ~quiet THEN <<[kind |-> "took", what |-> what]>> ELSE <<>>

\* An IDE step that writes JSON projects whatever the tag is.
RunIdeWriter_AlwaysJson(ide, cmd, res) ==
  [writer |-> "JSONProjectWriter", ok |-> res, err |-> "writer",
   out |-> TookLine("JSON projects", res, cmd.quiet)]

\* RunIdeWriter: the writer it invokes (None if it invokes none), its return
\* value, the error it sets and what it prints; res is the writer's result.
RunIdeWriter(ide, cmd, res) ==
  IF ide = kSwitchIdeValueEclipse THEN
    [writer |-> "EclipseWriter", ok |-> res, err |-> "writer",
     out |-> TookLine("Eclipse settings", res, cmd.quiet)]
  ELSE IF ide \in {kSwitchIdeValueVs, kSwitchIdeValueVs2013, kSwitchIdeValueVs2015,
                   kSwitchIdeValueVs2017, kSwitchIdeValueVs2019} THEN
    [writer |-> "VisualStudioWriter", ok |-> res, err |-> "writer",
     out |-> TookLine("Visual Studio projects", res, cmd.quiet)]
  ELSE IF ide = kSwitchIdeValueXcode THEN
    IF cmd.xcode_build_system # ""
         /\ cmd.xcode_build_system \notin {kSwitchXcodeBuildsystemValueNew,
                                           kSwitchXcodeBuildsystemValueLegacy}
      THEN [writer |-> None, ok |-> FALSE,
            err |-> "Unknown build system: " \o cmd.xcode_build_system,
            out |-> <<>>]
      ELSE [writer |-> "XcodeWriter", ok |-> res, err |-> "writer",
            out |-> TookLine("Xcode projects", res, cmd.quiet)]
  ELSE IF ide = kSwitchIdeValueQtCreator THEN
    [writer |-> "QtCreatorWriter", ok |-> res, err |-> "writer",
     out |-> TookLine("QtCreator projects", res, cmd.quiet)]
  ELSE IF ide = kSwitchIdeValueJson THEN
    [writer |-> "JSONProjectWriter", ok |-> res, err |-> "writer",
     out |-> TookLine("JSON projects", res, cmd.quiet)]
  ELSE [writer |-> None, ok |-> FALSE, err |-> "Unknown IDE: " \o ide,
        out |-> <<>>]

\* RunCompileCommandsWriter
RunCompileCommandsWriter(cmd, res) ==
  [writer |-> "CompileCommandsWriter", ok |-> res, err |-> "writer",
   out |-> TookLine("compile_commands", res, cmd.quiet)]

\* RunRustProjectWriter
RunRustProjectWriter(cmd, res) ==
  [writer |-> "RustProjectWriter", ok |-> res, err |-> "writer",
   out |-> TookLine("rust-project.json", res, cmd.quiet)]

(***************************************************************************)
(* RunGen, the main thread.                                                *)
(***************************************************************************)
\* Orders of the steps that differ from RunGen's: the IDE writer ahead of the
\* validator, the validator ahead of the sort and the flush, no validator.
DriverSteps_IdeBeforeValidator ==
  <<"sort", "ninja", "runtime_deps", "ide", "validate", "compile_commands",
    "rust_project", "summary">>
DriverSteps_ValidatorFirst ==
  <<"validate", "sort", "ninja", "runtime_deps", "ide", "compile_commands",
    "rust_project", "summary">>
DriverSteps_NoValidator ==
  <<"sort", "ninja", "runtime_deps", "ide", "compile_commands",
    "rust_project", "summary">>

\* An order of the steps that examines the --ide value before anything is
\* written.
DriverSteps_IdeFirst ==
  <<"ide", "sort", "ninja", "runtime_deps", "validate", "compile_commands",
    "rust_project", "summary">>

\* The steps of RunGen after the load, in program order.
DriverSteps ==
  <<"sort", "ninja", "runtime_deps", "validate", "ide", "compile_commands",
    "rust_project", "summary">>

\* The step RunGen goes to when a step has succeeded.
StepAfter(step) ==
  LET at == CHOOSE k \in 1..Len(DriverSteps) : DriverSteps[k] = step
  IN IF at < Len(DriverSteps) THEN DriverSteps[at + 1] ELSE "done"

\* A step has run: what it was, the writer it invoked, whether it succeeded.
Did(name, writer, ok) == [step |-> name, writer |-> writer, ok |-> ok]

\* The state when RunGen is entered, for the given command lines, worker
\* counts and repositories.
InitWith(cmds, workers, repos) ==
  /\ command_line \in cmds
  /\ num_workers \in workers
  /\ repo \in repos
  /\ pc = "args"
  /\ exit_code = -1
  /\ setup = [created |-> FALSE]
  /\ callback = FALSE
  /\ resolved = {}
  /\ unknown_inputs = <<>>
  /\ inserted = <<>>
  /\ is_failed = FALSE
  /\ work_queue = <<>>
  /\ task = [t \in Targets |-> "idle"]
  /\ write_info = [lock |-> nullptr, rules |-> EmptyRules]
  /\ jumbo = JumboStats(EmptyRules, FALSE)
  /\ written = [main |-> <<>>, runtime_deps |-> FALSE]
  /\ steps = <<>>
  /\ stdout = <<>>

\* RunGen returns.
Return(code) ==
  /\ pc' = "done"
  /\ exit_code' = code

\* An argument check that only asks for at least one build directory.
CheckArgs_AtLeastOne ==
  /\ pc = "args"
  /\ steps' = Append(steps, Did("args", None, command_line.args >= 1))
  /\ IF command_line.args < 1
       THEN /\ stdout' = Append(stdout, [kind |-> "Err",
                           title |-> "Need exactly one build directory to generate."])
            /\ Return(1)
       ELSE /\ pc' = "setup"
            /\ UNCHANGED <<stdout, exit_code>>
  /\ UNCHANGED <<command_line, num_workers, repo, setup, callback, resolved,
                 unknown_inputs, inserted, is_failed, work_queue, task, write_info, jumbo,
                 written>>

\* The argument check.
CheckArgs ==
  /\ pc = "args"
  /\ steps' = Append(steps, Did("args", None, command_line.args = 1))
  /\ IF command_line.args # 1
       THEN /\ stdout' = Append(stdout, [kind |-> "Err",
                           title |-> "Need exactly one build directory to generate."])
            /\ Return(1)
       ELSE /\ pc' = "setup"
            /\ UNCHANGED <<stdout, exit_code>>
  /\ UNCHANGED <<command_line, num_workers, repo, setup, callback, resolved,
                 unknown_inputs, inserted, is_failed, work_queue, task, write_info, jumbo,
                 written>>

\* new Setup(), set_gen_empty_args, DoSetup and the --check switch.
DoSetup ==
  /\ pc = "setup"
  /\ \E ok \in BOOLEAN :
       /\ steps' = Append(steps, Did("setup", None, ok))
       /\ setup' =
            [created |-> TRUE,
             gen_empty_args |-> ~command_line.args_switch,
             check_public_headers |-> ok /\ command_line.check # NoSwitch,
             check_system_includes |-> ok /\ command_line.check = "system"]
       /\ IF ok THEN pc' = "register" /\ UNCHANGED exit_code ELSE Return(1)
  /\ UNCHANGED <<command_line, num_workers, repo, callback, resolved,
                 unknown_inputs, inserted, is_failed, work_queue, task, write_info, jumbo,
                 written, stdout>>

\* A driver that starts the load without setting the callback.
RegisterCallback_NotSet ==
  /\ pc = "register"
  /\ callback' = FALSE
  /\ steps' = Append(steps, Did("register", None, TRUE))
  /\ pc' = "run"
  /\ UNCHANGED <<command_line, num_workers, repo, exit_code, setup, resolved,
                 unknown_inputs, inserted, is_failed, work_queue, task, write_info, jumbo,
                 written, stdout>>

\* set_resolved_and_generated_callback
RegisterCallback ==
  /\ pc = "register"
  /\ callback' = TRUE
  /\ steps' = Append(steps, Did("register", None, TRUE))
  /\ pc' = "run"
  /\ UNCHANGED <<command_line, num_workers, repo, exit_code, setup, resolved,
                 unknown_inputs, inserted, is_failed, work_queue, task, write_info, jumbo,
                 written, stdout>>

\* Inside setup->Run(): the dispatch thread resolves one record, logs the
\* target's unknown generated inputs and calls the registered callback.
Resolve(i) ==
  /\ pc = "run"
  /\ i \in Items \ resolved
  /\ resolved' = resolved \cup {i}
  /\ unknown_inputs' =
       IF AsTarget(i) # nullptr
         THEN AddUnknownGeneratedInputs(unknown_inputs, BadInputsOf(repo, i), i)
         ELSE unknown_inputs
  /\ inserted' =
       IF AsTarget(i) # nullptr
         THEN inserted \o [k \in 1..Len(BadInputsOf(repo, i)) |->
                             [file |-> BadInputsOf(repo, i)[k], target |-> i]]
         ELSE inserted
  /\ work_queue' =
       IF callback THEN ItemResolvedAndGeneratedCallback(work_queue, i)
       ELSE work_queue
  /\ UNCHANGED <<command_line, num_workers, repo, pc, exit_code, setup, callback,
                 is_failed, task, write_info, jumbo, written, steps, stdout>>

\* Inside setup->Run(): the dispatch loop ends; records left unresolved are
\* a failure.
DispatchEnd ==
  /\ pc = "run"
  /\ pc' = "drain"
  /\ is_failed' = (is_failed \/ resolved # Items)
  /\ UNCHANGED <<command_line, num_workers, repo, exit_code, setup, callback,
                 resolved, unknown_inputs, inserted, work_queue, task, write_info, jumbo,
                 written, steps, stdout>>

\* A load that returns without waiting for the pool.
PoolDrained_NoWait == TRUE

\* The work pool has drained: no task is queued and none is running.
PoolDrained ==
  /\ work_queue = <<>>
  /\ Running = {}

\* A driver that goes on to the sort whatever setup->Run() returned.
RunReturns_IgnoreFailure ==
  /\ pc = "drain"
  /\ PoolDrained
  /\ steps' = Append(steps, Did("run", None, ~is_failed))
  /\ pc' = Head(DriverSteps)
  /\ UNCHANGED <<stdout, exit_code>>
  /\ UNCHANGED <<command_line, num_workers, repo, setup, callback, resolved,
                 unknown_inputs, inserted, is_failed, work_queue, task, write_info, jumbo,
                 written>>

\* setup->Run() returns once the pool has drained.
RunReturns ==
  /\ pc = "drain"
  /\ PoolDrained
  /\ steps' = Append(steps, Did("run", None, ~is_failed))
  /\ IF is_failed
       THEN /\ stdout' = Append(stdout, [kind |-> "Err", title |-> "load"])
            /\ Return(1)
       ELSE /\ pc' = Head(DriverSteps)
            /\ UNCHANGED <<stdout, exit_code>>
  /\ UNCHANGED <<command_line, num_workers, repo, setup, callback, resolved,
                 unknown_inputs, inserted, is_failed, work_queue, task, write_info, jumbo,
                 written>>

\* A free worker takes the oldest task and starts BackgroundDoWrite.
StartTask ==
  /\ work_queue # <<>>
  /\ Cardinality(Running) < num_workers
  /\ task' = [task EXCEPT ![Head(work_queue)] = "writing"]
  /\ work_queue' = Tail(work_queue)
  /\ UNCHANGED <<command_line, num_workers, repo, pc, exit_code, setup, callback,
                 resolved, unknown_inputs, inserted, is_failed, write_info, jumbo, written,
                 steps, stdout>>

\* The per-target writer fails: the task ends and the failure is recorded.
WriterFails(t) ==
  /\ task[t] = "writing"
  /\ task' = [task EXCEPT ![t] = "failed"]
  /\ is_failed' = TRUE
  /\ UNCHANGED <<command_line, num_workers, repo, pc, exit_code, setup, callback,
                 resolved, unknown_inputs, inserted, work_queue, write_info, jumbo, written,
                 steps, stdout>>

\* A worker that goes on to the append without waiting for the lock.
AcquireLock_NoWait(t) ==
  /\ task[t] = "writing"
  /\ write_info' = [write_info EXCEPT !.lock = t]
  /\ task' = [task EXCEPT ![t] = "locked"]
  /\ UNCHANGED <<command_line, num_workers, repo, pc, exit_code, setup, callback,
                 resolved, unknown_inputs, inserted, is_failed, work_queue, jumbo, written,
                 steps, stdout>>

\* BackgroundDoWrite: RunAndWriteFile has returned the rule and the worker
\* takes the lock.
AcquireLock(t) ==
  /\ task[t] = "writing"
  /\ write_info.lock = nullptr
  /\ write_info' = [write_info EXCEPT !.lock = t]
  /\ task' = [task EXCEPT ![t] = "locked"]
  /\ UNCHANGED <<command_line, num_workers, repo, pc, exit_code, setup, callback,
                 resolved, unknown_inputs, inserted, is_failed, work_queue, jumbo, written,
                 steps, stdout>>

\* BackgroundDoWrite: the append under the lock, and the unlock.
AppendRule(t) ==
  /\ task[t] = "locked"
  /\ write_info' = [lock |-> nullptr,
                    rules |-> EmplaceBack(write_info.rules, t, RuleOf(t))]
  /\ task' = [task EXCEPT ![t] = "done"]
  /\ UNCHANGED <<command_line, num_workers, repo, pc, exit_code, setup, callback,
                 resolved, unknown_inputs, inserted, is_failed, work_queue, jumbo, written,
                 steps, stdout>>

\* A driver that goes on to the next step after a failed one.
Proceed_IgnoreFailure(step, ok, out, err) ==
  /\ pc' = StepAfter(step)
  /\ stdout' = stdout \o out \o (IF ok THEN <<>> ELSE err)
  /\ UNCHANGED exit_code

\* A step of RunGen has succeeded or failed: go on, or print the error and
\* return 1.
Proceed(step, ok, out, err) ==
  IF ok
    THEN /\ pc' = StepAfter(step)
         /\ stdout' = stdout \o out
         /\ UNCHANGED exit_code
    ELSE /\ stdout' = stdout \o out \o err
         /\ Return(1)

PrintedErr(e) == <<[kind |-> "Err", title |-> e]>>

\* The per-toolchain sort and the jumbo counters.
SortStep ==
  /\ pc = "sort"
  /\ \E sorted \in SortedRules(write_info.rules) :
       /\ write_info' = [write_info EXCEPT !.rules = sorted]
       /\ jumbo' = JumboStats(sorted, command_line.jumbo_stats)
  /\ steps' = Append(steps, Did("sort", None, TRUE))
  /\ pc' = StepAfter("sort")
  /\ UNCHANGED <<command_line, num_workers, repo, exit_code, setup, callback,
                 resolved, unknown_inputs, inserted, is_failed, work_queue, task, written,
                 stdout>>

\* NinjaWriter::RunAndWriteFiles with the aggregator's rules.
NinjaStep ==
  /\ pc = "ninja"
  /\ \E ok \in BOOLEAN :
       /\ steps' = Append(steps, Did("ninja", "NinjaWriter", ok))
       /\ written' = IF ok THEN [written EXCEPT !.main = <<write_info.rules>>]
                     ELSE written
       /\ Proceed("ninja", ok, <<>>, PrintedErr("writer"))
  /\ UNCHANGED <<command_line, num_workers, repo, setup, callback, resolved,
                 unknown_inputs, inserted, is_failed, work_queue, task, write_info, jumbo>>

\* WriteRuntimeDepsFilesIfNecessary
RuntimeDepsStep ==
  /\ pc = "runtime_deps"
  /\ \E ok \in BOOLEAN :
       /\ steps' = Append(steps, Did("runtime_deps", None, ok))
       /\ written' = IF ok THEN [written EXCEPT !.runtime_deps = TRUE]
                     ELSE written
       /\ Proceed("runtime_deps", ok, <<>>, PrintedErr("runtime_deps"))
  /\ UNCHANGED <<command_line, num_workers, repo, setup, callback, resolved,
                 unknown_inputs, inserted, is_failed, work_queue, task, write_info, jumbo>>

\* CheckForInvalidGeneratedInputs on the scheduler's snapshot.
ValidateStep ==
  /\ pc = "validate"
  /\ LET r == CheckForInvalidGeneratedInputs(resolved, unknown_inputs)
     IN /\ steps' = Append(steps, Did("validate", None, r.ok))
        /\ Proceed("validate", r.ok, r.out, <<>>)
  /\ UNCHANGED <<command_line, num_workers, repo, setup, callback, resolved,
                 unknown_inputs, inserted, is_failed, work_queue, task, write_info, jumbo,
                 written>>

\* A project writer step: skipped when its switch is absent.
WriterStep(step, wanted, r) ==
  /\ pc = step
  /\ IF wanted
       THEN /\ steps' = Append(steps, Did(step, r.writer, r.ok))
            /\ Proceed(step, r.ok, r.out, PrintedErr(r.err))
       ELSE /\ pc' = StepAfter(step)
            /\ UNCHANGED <<steps, stdout, exit_code>>
  /\ UNCHANGED <<command_line, num_workers, repo, setup, callback, resolved,
                 unknown_inputs, inserted, is_failed, work_queue, task, write_info, jumbo,
                 written>>

\* --ide
IdeStep ==
  \E res \in BOOLEAN :
    WriterStep("ide", command_line.ide # NoSwitch,
               RunIdeWriter(command_line.ide, command_line, res))

\* --export-compile-commands
CompileCommandsStep ==
  \E res \in BOOLEAN :
    WriterStep("compile_commands", command_line.export_compile_commands,
               RunCompileCommandsWriter(command_line, res))

\* --export-rust-project
RustProjectStep ==
  \E res \in BOOLEAN :
    WriterStep("rust_project", command_line.export_rust_project,
               RunRustProjectWriter(command_line, res))

\* A summary that reports the number of toolchains.
TargetsCollected_Toolchains(rules) == Cardinality(DOMAIN rules)

\* The number of targets the summary reports.
TargetsCollected(rules) ==
  LET RECURSIVE Sum(_)
      Sum(S) == IF S = {} THEN 0
                ELSE LET tc == CHOOSE x \in S : TRUE
                     IN Len(rules[tc]) + Sum(S \ {tc})
  IN Sum(DOMAIN rules)

\* The final report and return 0.
SummaryStep ==
  /\ pc = "summary"
  /\ steps' = Append(steps, Did("summary", None, TRUE))
  /\ stdout' =
       IF command_line.quiet THEN stdout
       ELSE stdout
              \o (IF command_line.jumbo_stats
                    THEN <<[kind |-> "jumbo", stats |-> jumbo]>> ELSE <<>>)
              \o <<[kind |-> "Done"],
                   [kind |-> "stats",
                    targets |-> TargetsCollected(write_info.rules)]>>
  /\ Return(0)
  /\ UNCHANGED <<command_line, num_workers, repo, setup, callback, resolved,
                 unknown_inputs, inserted, is_failed, work_queue, task, write_info, jumbo,
                 written>>

Next ==
  \/ CheckArgs
  \/ DoSetup
  \/ RegisterCallback
  \/ \E i \in Items : Resolve(i)
  \/ DispatchEnd
  \/ RunReturns
  \/ StartTask
  \/ \E t \in Targets : WriterFails(t)
  \/ \E t \in Targets : AcquireLock(t)
  \/ \E t \in Targets : AppendRule(t)
  \/ SortStep
  \/ NinjaStep
  \/ RuntimeDepsStep
  \/ ValidateStep
  \/ IdeStep
  \/ CompileCommandsStep
  \/ RustProjectStep
  \/ SummaryStep

Init == InitWith(CommandLines, WorkerCounts, SUBSET BadPairs)

Spec == Init /\ [][Next]_vars

\* A command line with one build directory and every writer switch set.
AllWriters ==
  CommandLine(1, kSwitchIdeValueJson, "", TRUE, TRUE, FALSE, TRUE, NoSwitch, FALSE)

\* The worker pool: every worker count, a repository without bad inputs.
InitWorkers == InitWith({AllWriters}, WorkerCounts, {{}})

SpecWorkers == InitWorkers /\ [][Next]_vars

\* The validator: repositories with at most MaxBadInputs bad inputs, one
\* worker.
InitValidator ==
  InitWith({AllWriters}, {1},
           {r \in SUBSET BadPairs : Cardinality(r) <= MaxBadInputs})

SpecValidator == InitValidator /\ [][Next]_vars

\* The driver: every command line, two workers, a repository without bad
\* inputs and one with a bad input.
InitDriver ==
  InitWith(CommandLines, {2}, {{}, {CHOOSE p \in BadPairs : TRUE}})

SpecDriver == InitDriver /\ [][Next]_vars

(***************************************************************************)
(* Vocabulary of the properties.                                           *)
(***************************************************************************)
Ran(name) == \E k \in 1..Len(steps) : steps[k].step = name
RanOk(name) == \E k \in 1..Len(steps) : steps[k].step = name /\ steps[k].ok
Failed(name) == \E k \in 1..Len(steps) : steps[k].step = name /\ ~steps[k].ok
Count(name) == Cardinality({k \in 1..Len(steps) : steps[k].step = name})
Before(a, b) ==
  \A k \in 1..Len(steps) :
    steps[k].step = b => \E j \in 1..(k - 1) : steps[j].step = a
OkBefore(a, b) ==
  \A k \in 1..Len(steps) :
    steps[k].step = b => \E j \in 1..(k - 1) : steps[j].step = a /\ steps[j].ok

ProjectSteps == {"ide", "compile_commands", "rust_project"}

ResolvedTargets == {t \in resolved : AsTarget(t) # nullptr}

\* The aggregator's entries of one toolchain, and all its targets.
Entries(tc) ==
  {write_info.rules[tc][k] : k \in 1..Len(write_info.rules[tc])}
AggregatedTargets == {p[1] : p \in AllPairs(write_info.rules)}

\* A sequence of (target, rule) pairs is in strictly ascending label order.
Ascending(q) ==
  \A a, b \in 1..Len(q) : a < b => LabelLess(Label(q[a][1]), Label(q[b][1]))

\* The errors the validator printed, in order, and everything it printed.
IsDiagnostic(e) ==
  /\ e.kind = "Err"
  /\ e.title \in {"Input to targets not generated by a dependency.",
                  "Input to target not generated by a dependency."}
IsValidatorOutput(e) == IsDiagnostic(e) \/ e.kind \in {"newline", "help", "count"}
Diagnostics == SelectSeq(stdout, IsDiagnostic)
ValidatorOutput == SelectSeq(stdout, IsValidatorOutput)
CountLines == SelectSeq(stdout, LAMBDA e : e.kind = "count")

FileOfValue(v) == CHOOSE f \in Files : SourceFileValue(f) = v
MapFiles == {unknown_inputs[k].file : k \in 1..Len(unknown_inputs)}
\* The consumers of a file in the map, as positions of the map.
EntriesOf(f) == {k \in 1..Len(unknown_inputs) : unknown_inputs[k].file = f}
\* The resolved targets that generate a file.
Producers(f) ==
  {t \in ResolvedTargets :
     OutputFile(BuildDir, SourceFileValue(f)) \in ComputedOutputs(t)}

(***************************************************************************)
(* C1.  After the finalization sort the rules of every toolchain are in    *)
(* ascending label order and hold exactly the rule of every resolved       *)
(* target of that toolchain: the sorted aggregator is a function of the    *)
(* resolved targets alone, the same for every interleaving of the worker   *)
(* tasks and every worker count.                                           *)
(***************************************************************************)
C1_Determinism ==
  Ran("sort") =>
    /\ DOMAIN write_info.rules = {ToolchainLabel(t) : t \in ResolvedTargets}
    /\ \A tc \in DOMAIN write_info.rules :
         /\ Ascending(write_info.rules[tc])
         /\ Entries(tc) =
              {<<t, RuleOf(t)>> : t \in {x \in ResolvedTargets : ToolchainLabel(x) = tc}}

C1_Witness ==
  /\ Ran("sort")
  /\ num_workers = 8
  /\ \E tc \in DOMAIN write_info.rules : Len(write_info.rules[tc]) >= 2

(***************************************************************************)
(* C2.  The aggregator never holds an entry for anything but a resolved    *)
(* target, never two entries for a target, and every entry is under the    *)
(* key of its target's toolchain and carries that target's rule; once the  *)
(* load has ended and every scheduled task has run to completion, the      *)
(* targets of the aggregator are exactly the resolved targets.             *)
(***************************************************************************)
C2_OneFragmentPerTarget ==
  /\ \A tc \in DOMAIN write_info.rules :
       /\ \A k \in 1..Len(write_info.rules[tc]) :
            LET p == write_info.rules[tc][k]
            IN /\ p[1] \in ResolvedTargets
               /\ ToolchainLabel(p[1]) = tc
               /\ p[2] = RuleOf(p[1])
       /\ \A a, b \in 1..Len(write_info.rules[tc]) :
            a # b => write_info.rules[tc][a][1] # write_info.rules[tc][b][1]
  /\ (/\ pc \notin {"args", "setup", "register", "run"}
      /\ work_queue = <<>>
      /\ Running = {}
      /\ \A t \in Targets : task[t] # "failed")
     => AggregatedTargets = ResolvedTargets

C2_Witness ==
  /\ pc = "sort"
  /\ Cardinality(AggregatedTargets) >= 3
  /\ \E i \in resolved : AsTarget(i) = nullptr
  /\ Cardinality(DOMAIN write_info.rules) = 2

(***************************************************************************)
(* C3.  Driver ordering: the sort precedes the main output writer, which   *)
(* precedes the runtime-deps step; the validator runs only after both      *)
(* have succeeded; no project writer is invoked before the validator has   *)
(* run and succeeded.                                                      *)
(***************************************************************************)
C3_DriverOrdering ==
  /\ Before("sort", "ninja")
  /\ OkBefore("ninja", "runtime_deps")
  /\ OkBefore("ninja", "validate")
  /\ OkBefore("runtime_deps", "validate")
  /\ \A w \in ProjectSteps : OkBefore("validate", w)

C3_Witness ==
  /\ pc = "done"
  /\ exit_code = 0
  /\ \A w \in ProjectSteps : RanOk(w)

(***************************************************************************)
(* C4 as stated: the validator runs first, and only then the aggregator    *)
(* is sorted and flushed through the main output writer.                   *)
(***************************************************************************)
C4_ValidatorBeforeFlush ==
  /\ Before("validate", "sort")
  /\ Before("validate", "ninja")

(***************************************************************************)
(* C4 amended.  Once the load has ended and the pool has drained, the      *)
(* driver first sorts the aggregator and flushes it through the main       *)
(* output writer; when the validator runs the main output has been         *)
(* written from the sorted aggregator and the validator has not run        *)
(* before the flush; the project writers come after the validator.         *)
(***************************************************************************)
C4_FlushBeforeValidator ==
  /\ Ran("sort") => RanOk("run") /\ work_queue = <<>> /\ Running = {}
  /\ (pc = "validate" \/ Ran("validate")) =>
       /\ written.main = <<write_info.rules>>
       /\ \A tc \in DOMAIN write_info.rules : Ascending(write_info.rules[tc])
  /\ (pc \in {"sort", "ninja"}) => ~Ran("validate")
  /\ \A w \in ProjectSteps : Ran(w) => Ran("validate")

C4_Witness ==
  /\ Ran("validate")
  /\ Ran("ide")
  /\ written.main # <<>>

(***************************************************************************)
(* C5.  Validation is always fatal: the validator succeeds, and prints     *)
(* nothing, iff the unknown-generated-inputs map is empty; when the map is *)
(* not empty it fails, RunGen returns 1 and no project writer is invoked;  *)
(* a run that returns 0 had an empty map.                                  *)
(***************************************************************************)
C5_ValidationFatal ==
  /\ ~Ran("validate") => ValidatorOutput = <<>>
  /\ Ran("validate") =>
       /\ RanOk("validate") <=> unknown_inputs = <<>>
       /\ ValidatorOutput = <<>> <=> unknown_inputs = <<>>
       /\ Failed("validate") =>
            /\ pc = "done"
            /\ exit_code = 1
            /\ \A w \in ProjectSteps : ~Ran(w)
  /\ (pc = "done" /\ exit_code = 0) => unknown_inputs = <<>>

C5_Witness ==
  /\ Failed("validate")
  /\ unknown_inputs # <<>>
  /\ exit_code = 1

(***************************************************************************)
(* C6 as stated: in every run whose load succeeded the validator has run   *)
(* exactly once when RunGen returns.                                       *)
(***************************************************************************)
C6_ExactlyOnceAfterLoad ==
  (pc = "done" /\ RanOk("run")) => Count("validate") = 1

(***************************************************************************)
(* C6 amended.  The validator runs at most once; when RunGen returns it    *)
(* has run exactly once iff the load, the main output writer and the       *)
(* runtime-deps step all succeeded, and not at all otherwise.              *)
(***************************************************************************)
C6_OnceAfterFlush ==
  /\ Count("validate") <= 1
  /\ pc = "done" =>
       (Count("validate") = 1 <=>
          RanOk("run") /\ RanOk("ninja") /\ RanOk("runtime_deps"))

C6_Witness ==
  /\ pc = "done"
  /\ Count("validate") = 1
  /\ RanOk("runtime_deps")

(***************************************************************************)
(* C7.  The validator accumulates: for a non-empty map it prints exactly   *)
(* one error per distinct file of the map, the consumers of an error are   *)
(* the targets the map holds for its file, one per entry, and the count    *)
(* line is printed iff the map has more than one distinct file, with the   *)
(* number of distinct files.                                               *)
(***************************************************************************)
C7_Accumulates ==
  Ran("validate") =>
    /\ Len(Diagnostics) = Cardinality(MapFiles)
    /\ {FileOfValue(Diagnostics[k].file) : k \in 1..Len(Diagnostics)} = MapFiles
    /\ \A k \in 1..Len(Diagnostics) :
         LET e == Diagnostics[k]
             f == FileOfValue(e.file)
         IN /\ Len(e.consumers) = Cardinality(EntriesOf(f))
            /\ {[dir |-> c.dir, name |-> c.name] :
                  c \in {e.consumers[j] : j \in 1..Len(e.consumers)}}
               = {[dir |-> Label(unknown_inputs[j].target).dir,
                   name |-> Label(unknown_inputs[j].target).name] :
                    j \in EntriesOf(f)}
    /\ Len(CountLines) = (IF Cardinality(MapFiles) > 1 THEN 1 ELSE 0)
    /\ \A k \in 1..Len(CountLines) : CountLines[k].errors = Cardinality(MapFiles)

C7_Witness ==
  /\ Ran("validate")
  /\ Cardinality(MapFiles) = 2
  /\ Len(CountLines) = 1

\* The files of a sequence of entries in the order of their first occurrence.
RECURSIVE FirstOccurrences(_)
FirstOccurrences(es) ==
  IF es = <<>> THEN <<>>
  ELSE LET init == FirstOccurrences(SubSeq(es, 1, Len(es) - 1))
           f == es[Len(es)].file
       IN IF \E k \in 1..Len(init) : init[k] = f THEN init ELSE Append(init, f)

DiagnosticFiles == [k \in 1..Len(Diagnostics) |-> FileOfValue(Diagnostics[k].file)]

\* The targets inserted for a file, in insertion order.
InsertedFor(f) ==
  LET es == SelectSeq(inserted, LAMBDA e : e.file = f)
  IN [k \in 1..Len(es) |-> es[k].target]

(***************************************************************************)
(* C8 as stated: the errors come in the order in which their files were    *)
(* first inserted into the map.                                            *)
(***************************************************************************)
C8_InsertionOrderAcrossFiles ==
  Ran("validate") => DiagnosticFiles = FirstOccurrences(inserted)

(***************************************************************************)
(* C8 amended.  The errors come in ascending order of their files (the     *)
(* key order of the multimap), whatever the order of insertion; within     *)
(* one error the consumers are listed in the order of their insertion.     *)
(***************************************************************************)
C8_KeyOrderAcrossFiles ==
  Ran("validate") =>
    /\ \A a, b \in 1..Len(DiagnosticFiles) :
         a < b => DiagnosticFiles[a] < DiagnosticFiles[b]
    /\ \A k \in 1..Len(Diagnostics) :
         LET e == Diagnostics[k]
             ts == InsertedFor(FileOfValue(e.file))
         IN /\ Len(e.consumers) = Len(ts)
            /\ \A j \in 1..Len(ts) :
                 /\ e.consumers[j].dir = Label(ts[j]).dir
                 /\ e.consumers[j].name = Label(ts[j]).name

C8_Witness ==
  /\ Ran("validate")
  /\ Len(inserted) = 2
  /\ inserted[1].file > inserted[2].file

(***************************************************************************)
(* C9.  In every error of the validator all labels, of every consumer and  *)
(* of the generator, carry a toolchain suffix iff a consumer of the file   *)
(* or the target that generates it is not in the default toolchain; the    *)
(* labels of one error are never rendered in both forms.                   *)
(***************************************************************************)
C9_ToolchainLabels ==
  \A k \in 1..Len(Diagnostics) :
    LET e == Diagnostics[k]
        f == FileOfValue(e.file)
        involved == {unknown_inputs[j].target : j \in EntriesOf(f)} \cup Producers(f)
        shown == \E t \in involved : ToolchainLabel(t) # DefaultToolchain
        labels == {e.consumers[j] : j \in 1..Len(e.consumers)}
                    \cup {e.generator[j] : j \in 1..Len(e.generator)}
    IN \A l \in labels : (l.suffix # None) <=> shown

\* An error whose consumers are all in the default toolchain and whose
\* generator is not: the suffixes are shown.
C9_Witness ==
  \E k \in 1..Len(Diagnostics) :
    LET e == Diagnostics[k]
        f == FileOfValue(e.file)
    IN /\ \A j \in EntriesOf(f) :
            ToolchainLabel(unknown_inputs[j].target) = DefaultToolchain
       /\ Len(e.generator) = 1
       /\ e.generator[1].suffix = OtherToolchain
       /\ e.consumers[1].suffix = DefaultToolchain

(***************************************************************************)
(* C10.  For a bad input file, at any moment of the load and after it,     *)
(* FindTargetThatGeneratesFile returns a resolved target whose computed    *)
(* outputs contain the file's OutputFile when there is one and null        *)
(* otherwise; an error names that target as the generator in the           *)
(* first case and says that no target generates the file iff no resolved   *)
(* target does.                                                            *)
(***************************************************************************)
C10_ProducerIdentification ==
  /\ \A f \in MapFiles :
       LET g == FindTargetThatGeneratesFile(resolved, f)
       IN IF Producers(f) = {} THEN g = nullptr ELSE g \in Producers(f)
  /\ \A k \in 1..Len(Diagnostics) :
       LET e == Diagnostics[k]
           f == FileOfValue(e.file)
       IN /\ (e.detail = "but no targets in the build generate that file.")
               <=> Producers(f) = {}
          /\ (e.generator = <<>>) <=> Producers(f) = {}
          /\ e.generator # <<>> =>
               \E t \in Producers(f) :
                 /\ e.generator[1].dir = Label(t).dir
                 /\ e.generator[1].name = Label(t).name

C10_Witness ==
  /\ Len(Diagnostics) = 2
  /\ Diagnostics[1].generator # <<>>
  /\ Diagnostics[2].generator = <<>>

(***************************************************************************)
(* C11..C20: exit code, project writers, the worker pool, the summary.     *)
(***************************************************************************)
\* The steps every run needs, and whether a project writer was asked for.
MandatorySteps == {"args", "setup", "run", "ninja", "runtime_deps", "validate"}

Requested(name) ==
  CASE name = "ide" -> command_line.ide # NoSwitch
    [] name = "compile_commands" -> command_line.export_compile_commands
    [] name = "rust_project" -> command_line.export_rust_project

\* C11: RunGen returns 0 exactly when the argument check, the setup, the
\* load, the main writer, the runtime-deps writer, the validator and every
\* requested project writer have all succeeded, and 1 otherwise; a failed
\* step is the last step of the run, so no later step is executed.
C11_ExitCodeAndShortCircuit ==
  /\ (pc = "done") <=> (exit_code \in {0, 1})
  /\ pc # "done" => exit_code = -1
  /\ \A k \in 1..Len(steps) :
       ~steps[k].ok => k = Len(steps) /\ pc = "done" /\ exit_code = 1
  /\ pc = "done" =>
       (exit_code = 0 <=>
          /\ \A s \in MandatorySteps : RanOk(s)
          /\ \A s \in ProjectSteps : Requested(s) => RanOk(s))

\* The runtime-deps writer has failed in a run that asked for an IDE
\* project: the run is over with 1 and the IDE writer was not reached.
C11_Witness ==
  /\ pc = "done"
  /\ exit_code = 1
  /\ Failed("runtime_deps")
  /\ command_line.ide # NoSwitch
  /\ ~Ran("ide")

\* The usage error of the argument check.
UsageErr == [kind |-> "Err", title |-> "Need exactly one build directory to generate."]

\* C12: with a number of positional arguments other than one, RunGen
\* returns 1 with the usage error and does nothing else: no Setup is
\* created, no callback is registered, nothing is loaded or scheduled and
\* no file is written.
C12_UsageError ==
  command_line.args # 1 =>
    /\ pc \in {"args", "done"}
    /\ ~setup.created
    /\ ~callback
    /\ resolved = {}
    /\ work_queue = <<>>
    /\ \A t \in Targets : task[t] = "idle"
    /\ write_info.rules = EmptyRules
    /\ written = [main |-> <<>>, runtime_deps |-> FALSE]
    /\ pc = "done" =>
         /\ exit_code = 1
         /\ stdout = <<UsageErr>>
         /\ steps = <<Did("args", None, FALSE)>>

\* RunGen has returned from a call with two build directories.
C12_Witness ==
  /\ command_line.args = 2
  /\ pc = "done"
  /\ exit_code = 1
  /\ stdout = <<UsageErr>>

\* The IDE tags of the claim and the writer each one selects.
KnownIdeTags ==
  {"eclipse", "vs", "vs2013", "vs2015", "vs2017", "vs2019", "xcode",
   "qtcreator", "json"}

IdeWriterOf(tag) ==
  CASE tag = "eclipse" -> "EclipseWriter"
    [] tag \in {"vs", "vs2013", "vs2015", "vs2017", "vs2019"} -> "VisualStudioWriter"
    [] tag = "xcode" -> "XcodeWriter"
    [] tag = "qtcreator" -> "QtCreatorWriter"
    [] tag = "json" -> "JSONProjectWriter"

IdeWriters == {IdeWriterOf(tag) : tag \in KnownIdeTags}

\* The steps of the run that invoked an IDE writer.
IdeInvocations == {k \in 1..Len(steps) : steps[k].writer \in IdeWriters}

Position(name) == CHOOSE k \in 1..Len(steps) : steps[k].step = name

\* Every step a project writer comes after has succeeded.
EarlierOk(name) ==
  /\ \A s \in MandatorySteps : RanOk(s)
  /\ name \in {"compile_commands", "rust_project"} =>
       (Requested("ide") => RanOk("ide"))
  /\ name = "rust_project" =>
       (Requested("compile_commands") => RanOk("compile_commands"))

\* C13: at most one IDE writer is invoked, the one the --ide tag selects
\* from the closed set of tags; a tag outside the set invokes no IDE writer
\* and fails with "Unknown IDE: <tag>" and exit code 1.  The
\* compile-commands and rust-project writers are each invoked exactly when
\* their own switch is set and every earlier step succeeded, with or
\* without --ide, in the order IDE, compile-commands, rust-project.
C13_ProjectWriterSelection ==
  /\ Cardinality(IdeInvocations) <= 1
  /\ \A k \in IdeInvocations :
       /\ steps[k].step = "ide"
       /\ command_line.ide \in KnownIdeTags
       /\ steps[k].writer = IdeWriterOf(command_line.ide)
  /\ (Ran("ide") /\ command_line.ide \notin KnownIdeTags) =>
       /\ IdeInvocations = {}
       /\ Failed("ide")
       /\ pc = "done"
       /\ exit_code = 1
       /\ stdout[Len(stdout)] =
            [kind |-> "Err", title |-> "Unknown IDE: " \o command_line.ide]
  /\ \A s \in ProjectSteps :
       /\ Count(s) <= 1
       /\ Ran(s) => Requested(s) /\ EarlierOk(s)
       /\ pc = "done" => (Ran(s) <=> Requested(s) /\ EarlierOk(s))
  /\ \A a, b \in ProjectSteps :
       (Ran(a) /\ Ran(b) /\ Position(a) < Position(b)) =>
         <<a, b>> \in {<<"ide", "compile_commands">>, <<"ide", "rust_project">>,
                       <<"compile_commands", "rust_project">>}

\* A run with --ide=bogus and --export-compile-commands has ended at the
\* IDE step: the compile-commands writer was not invoked.
C13_Witness ==
  /\ pc = "done"
  /\ command_line.ide \notin KnownIdeTags \cup {NoSwitch}
  /\ command_line.export_compile_commands
  /\ Failed("ide")
  /\ ~Ran("compile_commands")

\* The targets whose per-target writer failed on a worker.
FailedTasks == {t \in Targets : task[t] = "failed"}

\* C14: when the per-target writer fails for a target on a worker, the
\* load fails: RunGen returns 1 and neither the sort nor the main output
\* writer ever sees the partial aggregator; the failed task is not retried
\* (it stays failed, is not queued again and leaves no fragment).
C14_WorkerFailurePropagation ==
  /\ [](FailedTasks # {} =>
          /\ is_failed
          /\ pc \in {"run", "drain", "done"}
          /\ ~Ran("sort")
          /\ ~Ran("ninja")
          /\ written.main = <<>>
          /\ pc = "done" => exit_code = 1 /\ Failed("run")
          /\ \A t \in FailedTasks :
               /\ t \notin AggregatedTargets
               /\ \A k \in 1..Len(work_queue) : work_queue[k] # t)
  /\ [][\A t \in FailedTasks : task'[t] = "failed"]_vars

\* The load has failed with one target's writer failed and another
\* target's fragment already in the aggregator.
C14_Witness ==
  /\ pc = "done"
  /\ exit_code = 1
  /\ FailedTasks # {}
  /\ AggregatedTargets # {}

\* The tasks inside the append and the tasks inside the per-target writer.
InAppend == {t \in Targets : task[t] = "locked"}
InWriter == {t \in Targets : task[t] = "writing"}
Completed == {t \in Targets : task[t] = "done"}

\* The fragments the aggregator holds for a toolchain, in order.
Fragments(tc) ==
  IF tc \in DOMAIN write_info.rules THEN write_info.rules[tc] ELSE <<>>

\* C15: at most one worker is inside the append to the aggregator, and it
\* is the holder of the lock; a worker inside the per-target writer does
\* not hold the lock; every fragment appended so far is still in the
\* aggregator, once, under its target's toolchain.
C15_MutualExclusion ==
  /\ Cardinality(InAppend) <= 1
  /\ \A t \in InAppend : write_info.lock = t
  /\ InAppend = {} => write_info.lock = nullptr
  /\ \A t \in InWriter : write_info.lock # t
  /\ \A t \in Completed :
       Cardinality({k \in 1..Len(Fragments(ToolchainLabel(t))) :
                      Fragments(ToolchainLabel(t))[k] = <<t, RuleOf(t)>>}) = 1
  /\ Len(Fragments(DefaultToolchain)) + Len(Fragments(OtherToolchain))
       = Cardinality(Completed)
  /\ DOMAIN write_info.rules \subseteq {DefaultToolchain, OtherToolchain}

\* One worker is inside the append while two others are in
\* BackgroundDoWrite outside the locked block.
C15_Witness ==
  /\ Cardinality(InAppend) = 1
  /\ Cardinality(InWriter) >= 2

\* C16: once the load has returned successfully the aggregator belongs to
\* the driver alone: every task the callback scheduled has completed and
\* its fragment is in the aggregator before the sort first reads the rules
\* without the lock, and from then on no task runs, nobody holds the lock
\* and no fragment is added or removed; after the sort the aggregator does
\* not change at all.
C16_ReadOnlyAfterLoad ==
  /\ [](RanOk("run") =>
          /\ work_queue = <<>>
          /\ InWriter = {}
          /\ InAppend = {}
          /\ write_info.lock = nullptr
          /\ \A t \in ResolvedTargets : task[t] = "done"
          /\ AggregatedTargets = ResolvedTargets)
  /\ [][/\ RanOk("run") =>
             /\ task' = task
             /\ work_queue' = work_queue
             /\ AllPairs(write_info.rules)' = AllPairs(write_info.rules)
        /\ Ran("sort") => write_info' = write_info]_vars

\* The driver has sorted an aggregator of several fragments and is about
\* to hand it to the main output writer.
C16_Witness ==
  /\ pc = "ninja"
  /\ Ran("sort")
  /\ Cardinality(AggregatedTargets) >= 2

\* How often an item is in the pool's queue.
Queued(i) == Cardinality({k \in 1..Len(work_queue) : work_queue[k] = i})

\* C17: for each record the scheduler resolves, the callback schedules one
\* write task when the item is a target and nothing when it is not; the
\* callback does not touch the aggregator and does not start or wait for
\* the task.  Over the run each resolved target has exactly one task
\* (queued, running or ended) and no other item has one.
C17_CallbackClassification ==
  /\ [][resolved' # resolved =>
          LET item == CHOOSE i \in resolved' \ resolved : TRUE
          IN /\ resolved' = resolved \cup {item}
             /\ work_queue' = IF AsTarget(item) # nullptr
                                THEN Append(work_queue, AsTarget(item))
                                ELSE work_queue
             /\ write_info' = write_info
             /\ task' = task]_vars
  /\ [](\A i \in Items :
          IF i \in ResolvedTargets
            THEN Queued(i) + (IF task[i] # "idle" THEN 1 ELSE 0) = 1
            ELSE Queued(i) = 0 /\ (i \in Targets => task[i] = "idle"))

\* The callback has been called for a non-target and for two targets,
\* whose tasks are queued and not yet started.
C17_Witness ==
  /\ resolved \ Targets # {}
  /\ Cardinality(ResolvedTargets) >= 2
  /\ \A t \in ResolvedTargets : Queued(t) = 1 /\ task[t] = "idle"
  /\ write_info.rules = EmptyRules

\* C18: the callback is registered only after DoSetup has succeeded and
\* before the scheduler run starts: it is set in the one step between the
\* setup and the run while nothing is resolved yet, it is set whenever the
\* run is under way or over, and every target resolved has been handed to
\* it.  When the setup fails the callback is never registered and the run
\* never starts.
C18_RegistrationBeforeStart ==
  /\ [](/\ callback => setup.created /\ RanOk("setup") /\ Ran("register")
        /\ (pc \in {"run", "drain"} \/ Ran("run") \/ resolved # {}) => callback
        /\ \A t \in ResolvedTargets : Queued(t) > 0 \/ task[t] # "idle"
        /\ Failed("setup") =>
             /\ ~callback
             /\ ~Ran("register")
             /\ ~Ran("run")
             /\ resolved = {}
             /\ pc = "done"
             /\ exit_code = 1)
  /\ [][callback' # callback =>
          /\ ~callback
          /\ pc = "register"
          /\ pc' = "run"
          /\ resolved = {}]_vars

\* The run is under way with the callback set and a resolved target
\* handed to the pool.
C18_Witness ==
  /\ pc = "run"
  /\ callback
  /\ RanOk("setup")
  /\ ResolvedTargets # {}

\* The "Made N targets" lines printed so far, and a run in which every
\* step before the summary succeeded.
StatsLines == SelectSeq(stdout, LAMBDA e : e.kind = "stats")

AllSucceeded ==
  /\ \A s \in MandatorySteps : RanOk(s)
  /\ \A s \in ProjectSteps : Requested(s) => RanOk(s)

\* C19: the summary is printed exactly when every earlier step succeeded
\* and --quiet is not set, once, as the last output of the run after
\* "Done."; the number of targets it reports is the sum of the fragment
\* counts of all toolchains, which is the number of resolved targets.
C19_SummaryReporting ==
  /\ Len(StatsLines) <= 1
  /\ pc # "done" => StatsLines = <<>>
  /\ pc = "done" =>
       (Len(StatsLines) = 1 <=> AllSucceeded /\ ~command_line.quiet)
  /\ \A k \in 1..Len(stdout) :
       stdout[k].kind = "stats" =>
         /\ k = Len(stdout)
         /\ k > 1
         /\ stdout[k - 1].kind = "Done"
         /\ stdout[k].targets =
              Len(Fragments(DefaultToolchain)) + Len(Fragments(OtherToolchain))
         /\ stdout[k].targets = Cardinality(ResolvedTargets)

\* A run without --quiet has ended with the summary, reporting the
\* targets of two toolchains.
C19_Witness ==
  /\ pc = "done"
  /\ exit_code = 0
  /\ Len(StatsLines) = 1
  /\ StatsLines[1].targets = Cardinality(ResolvedTargets)
  /\ Len(Fragments(DefaultToolchain)) >= 2
  /\ Len(Fragments(OtherToolchain)) >= 1

\* The steps of a run that asks for the project writers of the command
\* line, in RunGen's order; the jumbo switch is not consulted.
ExpectedSteps ==
  <<"args", "setup", "register", "run", "sort", "ninja", "runtime_deps",
    "validate">>
  \o (IF Requested("ide") THEN <<"ide">> ELSE <<>>)
  \o (IF Requested("compile_commands") THEN <<"compile_commands">> ELSE <<>>)
  \o (IF Requested("rust_project") THEN <<"rust_project">> ELSE <<>>)
  \o <<"summary">>

StepNames == [k \in 1..Len(steps) |-> steps[k].step]

\* The aggregated targets by their jumbo attributes.
JumboConfigured == {t \in AggregatedTargets : IsJumboConfigured(t)}
JumboUncounted ==
  {t \in AggregatedTargets : ~IsJumboConfigured(t) /\ ~IsBinary(t)}

Occurrences(q, pair) == Cardinality({k \in 1..Len(q) : q[k] = pair})

\* C21: the per-toolchain sort is a pure reordering: the step that sorts
\* keeps the set of toolchains, and for each toolchain the number of
\* entries and the number of occurrences of every (target, rule) pair; no
\* pair moves to another toolchain and every rule stays with the target
\* that produced it.
C21_SortIsPureReordering ==
  [][(pc = "sort" /\ pc' # "sort") =>
       /\ DOMAIN write_info'.rules = DOMAIN write_info.rules
       /\ \A tc \in DOMAIN write_info.rules :
            /\ Len(write_info'.rules[tc]) = Len(write_info.rules[tc])
            /\ \A k \in 1..Len(write_info.rules[tc]) :
                 Occurrences(write_info'.rules[tc], write_info.rules[tc][k])
                   = Occurrences(write_info.rules[tc], write_info.rules[tc][k])
            /\ \A k \in 1..Len(write_info'.rules[tc]) :
                 LET pair == write_info'.rules[tc][k]
                 IN /\ pair[2] = RuleOf(pair[1])
                    /\ ToolchainLabel(pair[1]) = tc]_vars

\* The sort has run over two toolchains, one of them holding the rules of
\* two targets whose label order is not the order of their numbers.
C21_Witness ==
  /\ Ran("sort")
  /\ \E tc \in DOMAIN write_info.rules : Len(write_info.rules[tc]) >= 2
  /\ Cardinality(DOMAIN write_info.rules) >= 2
  /\ \E a, b \in Completed :
       /\ ToolchainLabel(a) = ToolchainLabel(b)
       /\ LabelLess(Label(a), Label(b))
       /\ b < a

\* "Unknown IDE: <tag>" has been printed for the tag of the command line.
UnknownIdeReported ==
  \E k \in 1..Len(stdout) :
    /\ stdout[k].kind = "Err"
    /\ stdout[k].title = "Unknown IDE: " \o command_line.ide

\* C22: the --ide value is examined only after the main output writer, the
\* runtime-deps step and the validator have succeeded.  A run with an
\* unknown tag whose earlier steps all succeed ends with "Unknown IDE"
\* reported, exit code 1 and the main output and runtime deps already
\* written; when an earlier step fails, the IDE step is not reached and
\* the unknown tag is never reported.
C22_LateRejectionOfUnknownIde ==
  /\ Ran("ide") =>
       /\ RanOk("ninja") /\ RanOk("runtime_deps") /\ RanOk("validate")
       /\ written.main # <<>>
       /\ written.runtime_deps
  /\ UnknownIdeReported =>
       /\ command_line.ide \notin KnownIdeTags \cup {NoSwitch}
       /\ Failed("ide")
       /\ written.main # <<>>
       /\ written.runtime_deps
       /\ pc = "done"
       /\ exit_code = 1
  /\ (\E s \in MandatorySteps : Failed(s)) =>
       ~Ran("ide") /\ ~UnknownIdeReported
  /\ (/\ pc = "done"
      /\ command_line.ide \notin KnownIdeTags \cup {NoSwitch}
      /\ \A s \in MandatorySteps : RanOk(s)) => UnknownIdeReported

\* A run with --ide=bogus has written the main output and then reported
\* the unknown tag.
C22_Witness ==
  /\ pc = "done"
  /\ exit_code = 1
  /\ UnknownIdeReported
  /\ written.main # <<>>
  /\ Cardinality(AllPairs(written.main[1])) >= 2

====
